---- MODULE Spec2Model ----
(***************************************************************************)
(* Model of tt/utils/assertions.py: the two input assertions               *)
(*   assert_iterable_contains_all_expr_symbols(iter_of_strs, reference_set)*)
(*   assert_all_valid_keys(symbol_input_dict, symbol_set)                  *)
(* Each call runs in a thread; one step of a thread is one statement of    *)
(* the function body.  All threads are handed the same reference set       *)
(* object; every other name is a parameter or local of the call.           *)
(***************************************************************************)
EXTENDS Integers, Sequences, FiniteSets, TLC

\* ------------------------------------------------------------------ bounds
\* Longest candidate iterable / largest candidate dict handed to a call.
MaxLen == 3

Threads == {"t1", "t2"}

\* Symbols and values the callers draw their arguments from.
Symbols == {"A", "B", "C"}
Values == {"1", "0", "True", "False", "brian"}
\* The smaller universe used when two calls run concurrently.
ConcSymbols == {"A", "B"}
ConcValues == {"1", "False", "brian"}

\* tt.definitions.BOOLEAN_VALUES (imported at line 3; documented at line 131)
BOOLEAN_VALUES == {"1", "0", "True", "False"}

NoVal == "-"
NoOutcome == [kind |-> "running", msg |-> <<>>]

\* ----------------------------------------------------------------- helpers
Range(s) == {s[i] : i \in DOMAIN s}

SeqsUpTo(S, n) == UNION {[1..m -> S] : m \in 0..n}

\* The orders in which iterating a set may yield its elements.
SetIterations(S) == {s \in [1..Cardinality(S) -> S] : Range(s) = S}

\* Dicts: insertion-ordered sequences of <<key, value>> with distinct keys.
IsDict(d) == \A i, j \in DOMAIN d : d[i][1] = d[j][1] => i = j
Dicts(K, V, n) == {d \in SeqsUpTo(K \X V, n) : IsDict(d)}
Keys(d) == {d[i][1] : i \in DOMAIN d}

\* The arguments a caller may pass, alone or beside a concurrent caller.
Candidates == SeqsUpTo(Symbols, MaxLen)
CandidateDicts == Dicts(Symbols, Values, MaxLen)
ConcCandidates == SeqsUpTo(ConcSymbols, MaxLen)
ConcCandidateDicts == Dicts(ConcSymbols, ConcValues, MaxLen)

\* '"{}"'.format(sym)
Quoted(sym) == <<"\"", sym, "\"">>

\* ', '.join(parts) for a sequence of token sequences
RECURSIVE Join(_)
Join(parts) ==
    IF parts = <<>> THEN <<>>
    ELSE IF Len(parts) = 1 THEN parts[1]
    ELSE parts[1] \o <<", ">> \o Join(Tail(parts))

\* msg = prefix; msg += ', '.join('"{}"'.format(sym) for sym in order)
EnumerationMsg(prefix, order) ==
    <<prefix>> \o Join([i \in DOMAIN order |-> Quoted(order[i])])

\* list(iter_of_strs)
list(it) == it
\* set(passed_symbol_list)
set(l) == Range(l)
\* len(passed_symbol_list) != len(passed_symbol_set)
LenDiffers(l, s) == Len(l) # Cardinality(s)

DuplicateSymbolError == [kind |-> "DuplicateSymbolError",
                         msg |-> <<"Received duplicate symbols">>]
MissingSymbolError(order) ==
    [kind |-> "MissingSymbolError",
     msg |-> EnumerationMsg("Did not receive value for the following symbols: ", order)]
ExtraSymbolError(order) ==
    [kind |-> "ExtraSymbolError",
     msg |-> EnumerationMsg("Received unexpected symbols: ", order)]
ExtraKeyError(key) ==
    [kind |-> "ExtraSymbolError",
     msg |-> Quoted(key) \o <<" is not a symbol in this expression">>]
InvalidBooleanValueError(val, key) ==
    [kind |-> "InvalidBooleanValueError",
     msg |-> Quoted(val) \o <<" passed as value for ">> \o Quoted(key)
             \o <<" is not a valid Boolean value">>]
Returned == [kind |-> "returned", msg |-> <<>>]

\* ------------------------------------------------------------------- state
VARIABLES
    callers,              \* the threads that make a call in this run
    reference_set,        \* the caller-owned reference set object (shared)
    ref0,                 \* its content when the run started
    op,                   \* per thread: "idle", "reconcile" or "validate"
    pc,                   \* per thread: the statement about to execute
    arg,                  \* per thread: the candidate argument as it was passed
    iter_of_strs,         \* per thread: what the candidate iterable still yields
    consumed,             \* per thread: how often the iterable was iterated
    passed_symbol_list,
    passed_symbol_set,
    passed_excess_set,
    reference_excess_set,
    symbol_input_dict,    \* per thread: the candidate dict object
    idx,                  \* per thread: pairs the items() iterator has yielded
    k,
    v,
    outcome               \* per thread: how the call ended

vars == <<callers, reference_set, ref0, op, pc, arg, iter_of_strs,
          consumed, passed_symbol_list, passed_symbol_set, passed_excess_set,
          reference_excess_set, symbol_input_dict, idx, k, v, outcome>>

harness == <<callers, ref0>>
reconcileLocals == <<iter_of_strs, consumed, passed_symbol_list, passed_symbol_set,
                     passed_excess_set, reference_excess_set>>
validateLocals == <<symbol_input_dict, idx, k, v>>

InitThreads ==
    /\ op = [t \in Threads |-> "idle"]
    /\ pc = [t \in Threads |-> "idle"]
    /\ arg = [t \in Threads |-> <<>>]
    /\ iter_of_strs = [t \in Threads |-> <<>>]
    /\ consumed = [t \in Threads |-> 0]
    /\ passed_symbol_list = [t \in Threads |-> <<>>]
    /\ passed_symbol_set = [t \in Threads |-> {}]
    /\ passed_excess_set = [t \in Threads |-> {}]
    /\ reference_excess_set = [t \in Threads |-> {}]
    /\ symbol_input_dict = [t \in Threads |-> <<>>]
    /\ idx = [t \in Threads |-> 0]
    /\ k = [t \in Threads |-> NoVal]
    /\ v = [t \in Threads |-> NoVal]
    /\ outcome = [t \in Threads |-> NoOutcome]

\* One caller, the full universe.
Init ==
    /\ callers = {"t1"}
    /\ reference_set \in SUBSET Symbols
    /\ ref0 = reference_set
    /\ InitThreads

\* Two callers sharing the reference set.
InitConc ==
    /\ callers = Threads
    /\ reference_set \in SUBSET ConcSymbols
    /\ ref0 = reference_set
    /\ InitThreads

\* ------------------------------- assert_iterable_contains_all_expr_symbols
\* The call: parameters are bound.
reconcile_call(t) ==
    /\ t \in callers
    /\ pc[t] = "idle"
    /\ op' = [op EXCEPT ![t] = "reconcile"]
    /\ pc' = [pc EXCEPT ![t] = "L94"]
    /\ \E C \in (IF callers = Threads THEN ConcCandidates ELSE Candidates) :
          /\ arg' = [arg EXCEPT ![t] = C]
          /\ iter_of_strs' = [iter_of_strs EXCEPT ![t] = C]
    /\ UNCHANGED <<harness, reference_set, consumed, passed_symbol_list,
                   passed_symbol_set, passed_excess_set, reference_excess_set,
                   validateLocals, outcome>>

\* passed_symbol_list = list(iter_of_strs)
reconcile_L94(t) ==
    /\ pc[t] = "L94"
    /\ passed_symbol_list' = [passed_symbol_list EXCEPT ![t] = list(iter_of_strs[t])]
    /\ iter_of_strs' = [iter_of_strs EXCEPT ![t] = <<>>]
    /\ consumed' = [consumed EXCEPT ![t] = @ + 1]
    /\ pc' = [pc EXCEPT ![t] = "L95"]
    /\ UNCHANGED <<harness, reference_set, op, arg, passed_symbol_set,
                   passed_excess_set, reference_excess_set, validateLocals, outcome>>

\* passed_symbol_set = set(passed_symbol_list)
reconcile_L95(t) ==
    /\ pc[t] = "L95"
    /\ passed_symbol_set' = [passed_symbol_set EXCEPT ![t] = set(passed_symbol_list[t])]
    /\ pc' = [pc EXCEPT ![t] = "L96"]
    /\ UNCHANGED <<harness, reference_set, op, arg, iter_of_strs, consumed,
                   passed_symbol_list, passed_excess_set, reference_excess_set,
                   validateLocals, outcome>>

\* Mutant: the duplicate check is skipped.
reconcile_L96_nocheck(t) ==
    /\ pc[t] = "L96"
    /\ pc' = [pc EXCEPT ![t] = "L99"]
    /\ UNCHANGED <<harness, reference_set, op, arg, reconcileLocals,
                   validateLocals, outcome>>

\* if len(passed_symbol_list) != len(passed_symbol_set): raise DuplicateSymbolError
reconcile_L96(t) ==
    /\ pc[t] = "L96"
    /\ IF LenDiffers(passed_symbol_list[t], passed_symbol_set[t])
       THEN /\ outcome' = [outcome EXCEPT ![t] = DuplicateSymbolError]
            /\ pc' = [pc EXCEPT ![t] = "done"]
       ELSE /\ pc' = [pc EXCEPT ![t] = "L99"]
            /\ UNCHANGED outcome
    /\ UNCHANGED <<harness, reference_set, op, arg, reconcileLocals, validateLocals>>

\* Mutant: one pass that discards each matched symbol from reference_set.
reconcile_L99_discard(t) ==
    /\ pc[t] = "L99"
    /\ passed_excess_set' =
          [passed_excess_set EXCEPT ![t] = passed_symbol_set[t] \ reference_set]
    /\ reference_set' = reference_set \ passed_symbol_set[t]
    /\ pc' = [pc EXCEPT ![t] = "L100"]
    /\ UNCHANGED <<harness, op, arg, iter_of_strs, consumed,
                   passed_symbol_list, passed_symbol_set, reference_excess_set,
                   validateLocals, outcome>>

\* Mutant: the operands of the difference are swapped.
reconcile_L99_swapped(t) ==
    /\ pc[t] = "L99"
    /\ passed_excess_set' =
          [passed_excess_set EXCEPT ![t] = reference_set \ passed_symbol_set[t]]
    /\ pc' = [pc EXCEPT ![t] = "L100"]
    /\ UNCHANGED <<harness, reference_set, op, arg, iter_of_strs, consumed,
                   passed_symbol_list, passed_symbol_set, reference_excess_set,
                   validateLocals, outcome>>

\* passed_excess_set = passed_symbol_set - reference_set
reconcile_L99(t) ==
    /\ pc[t] = "L99"
    /\ passed_excess_set' =
          [passed_excess_set EXCEPT ![t] = passed_symbol_set[t] \ reference_set]
    /\ pc' = [pc EXCEPT ![t] = "L100"]
    /\ UNCHANGED <<harness, reference_set, op, arg, iter_of_strs, consumed,
                   passed_symbol_list, passed_symbol_set, reference_excess_set,
                   validateLocals, outcome>>

\* Mutant: the difference is taken in place (reference_set -= passed_symbol_set).
reconcile_L100_inplace(t) ==
    /\ pc[t] = "L100"
    /\ reference_set' = reference_set \ passed_symbol_set[t]
    /\ reference_excess_set' =
          [reference_excess_set EXCEPT ![t] = reference_set \ passed_symbol_set[t]]
    /\ pc' = [pc EXCEPT ![t] = "L102"]
    /\ UNCHANGED <<harness, op, arg, iter_of_strs, consumed,
                   passed_symbol_list, passed_symbol_set, passed_excess_set,
                   validateLocals, outcome>>

\* reference_excess_set = reference_set - passed_symbol_set
reconcile_L100(t) ==
    /\ pc[t] = "L100"
    /\ reference_excess_set' =
          [reference_excess_set EXCEPT ![t] = reference_set \ passed_symbol_set[t]]
    /\ pc' = [pc EXCEPT ![t] = "L102"]
    /\ UNCHANGED <<harness, reference_set, op, arg, iter_of_strs, consumed,
                   passed_symbol_list, passed_symbol_set, passed_excess_set,
                   validateLocals, outcome>>

\* Mutant: the unexpected symbols are tested before the missing ones.
reconcile_L102_extra_first(t) ==
    /\ pc[t] = "L102"
    /\ IF passed_excess_set[t] # {}
       THEN /\ \E order \in SetIterations(passed_excess_set[t]) :
                 outcome' = [outcome EXCEPT ![t] = ExtraSymbolError(order)]
            /\ pc' = [pc EXCEPT ![t] = "done"]
       ELSE IF reference_excess_set[t] # {}
       THEN /\ \E order \in SetIterations(reference_excess_set[t]) :
                 outcome' = [outcome EXCEPT ![t] = MissingSymbolError(order)]
            /\ pc' = [pc EXCEPT ![t] = "done"]
       ELSE /\ pc' = [pc EXCEPT ![t] = "L107"]
            /\ UNCHANGED outcome
    /\ UNCHANGED <<harness, reference_set, op, arg, reconcileLocals, validateLocals>>

\* Mutant: only the first missing symbol met is reported.
reconcile_L102_first(t) ==
    /\ pc[t] = "L102"
    /\ IF reference_excess_set[t] # {}
       THEN /\ \E order \in SetIterations(reference_excess_set[t]) :
                 outcome' = [outcome EXCEPT ![t] = MissingSymbolError(<<order[1]>>)]
            /\ pc' = [pc EXCEPT ![t] = "done"]
       ELSE /\ pc' = [pc EXCEPT ![t] = "L107"]
            /\ UNCHANGED outcome
    /\ UNCHANGED <<harness, reference_set, op, arg, reconcileLocals, validateLocals>>

\* if reference_excess_set: raise MissingSymbolError(msg)
reconcile_L102(t) ==
    /\ pc[t] = "L102"
    /\ IF reference_excess_set[t] # {}
       THEN /\ \E order \in SetIterations(reference_excess_set[t]) :
                 outcome' = [outcome EXCEPT ![t] = MissingSymbolError(order)]
            /\ pc' = [pc EXCEPT ![t] = "done"]
       ELSE /\ pc' = [pc EXCEPT ![t] = "L107"]
            /\ UNCHANGED outcome
    /\ UNCHANGED <<harness, reference_set, op, arg, reconcileLocals, validateLocals>>

\* Mutant: the whole passed set is enumerated instead of the excess.
reconcile_L107_all(t) ==
    /\ pc[t] = "L107"
    /\ IF passed_excess_set[t] # {}
       THEN \E order \in SetIterations(passed_symbol_set[t]) :
                 outcome' = [outcome EXCEPT ![t] = ExtraSymbolError(order)]
       ELSE outcome' = [outcome EXCEPT ![t] = Returned]
    /\ pc' = [pc EXCEPT ![t] = "done"]
    /\ UNCHANGED <<harness, reference_set, op, arg, reconcileLocals, validateLocals>>

\* if passed_excess_set: raise ExtraSymbolError(msg); else fall off the end
reconcile_L107(t) ==
    /\ pc[t] = "L107"
    /\ IF passed_excess_set[t] # {}
       THEN \E order \in SetIterations(passed_excess_set[t]) :
                 outcome' = [outcome EXCEPT ![t] = ExtraSymbolError(order)]
       ELSE outcome' = [outcome EXCEPT ![t] = Returned]
    /\ pc' = [pc EXCEPT ![t] = "done"]
    /\ UNCHANGED <<harness, reference_set, op, arg, reconcileLocals, validateLocals>>

\* --------------------------------------------------- assert_all_valid_keys
validate_call(t) ==
    /\ t \in callers
    /\ pc[t] = "idle"
    /\ op' = [op EXCEPT ![t] = "validate"]
    /\ pc' = [pc EXCEPT ![t] = "L173"]
    /\ \E M \in (IF callers = Threads THEN ConcCandidateDicts ELSE CandidateDicts) :
          /\ arg' = [arg EXCEPT ![t] = M]
          /\ symbol_input_dict' = [symbol_input_dict EXCEPT ![t] = M]
    /\ UNCHANGED <<harness, reference_set, reconcileLocals, idx, k, v, outcome>>

\* for k, v in symbol_input_dict.items(): the next pair, or the end
validate_L173(t) ==
    /\ pc[t] = "L173"
    /\ IF idx[t] < Len(symbol_input_dict[t])
       THEN /\ idx' = [idx EXCEPT ![t] = @ + 1]
            /\ k' = [k EXCEPT ![t] = symbol_input_dict[t][idx[t] + 1][1]]
            /\ v' = [v EXCEPT ![t] = symbol_input_dict[t][idx[t] + 1][2]]
            /\ pc' = [pc EXCEPT ![t] = "L174"]
            /\ UNCHANGED outcome
       ELSE /\ outcome' = [outcome EXCEPT ![t] = Returned]
            /\ pc' = [pc EXCEPT ![t] = "done"]
            /\ UNCHANGED <<idx, k, v>>
    /\ UNCHANGED <<harness, reference_set, op, arg, reconcileLocals, symbol_input_dict>>

\* Mutant: the value is tested before the key.
validate_L174_value_first(t) ==
    /\ pc[t] = "L174"
    /\ IF v[t] \notin BOOLEAN_VALUES
       THEN /\ outcome' = [outcome EXCEPT ![t] = InvalidBooleanValueError(v[t], k[t])]
            /\ pc' = [pc EXCEPT ![t] = "done"]
       ELSE IF k[t] \notin reference_set
       THEN /\ outcome' = [outcome EXCEPT ![t] = ExtraKeyError(k[t])]
            /\ pc' = [pc EXCEPT ![t] = "done"]
       ELSE /\ pc' = [pc EXCEPT ![t] = "L178"]
            /\ UNCHANGED outcome
    /\ UNCHANGED <<harness, reference_set, op, arg, reconcileLocals, validateLocals>>

\* Mutant: an unknown key is reported as a missing symbol.
validate_L174_missing(t) ==
    /\ pc[t] = "L174"
    /\ IF k[t] \notin reference_set
       THEN /\ outcome' = [outcome EXCEPT ![t] = MissingSymbolError(<<k[t]>>)]
            /\ pc' = [pc EXCEPT ![t] = "done"]
       ELSE /\ pc' = [pc EXCEPT ![t] = "L178"]
            /\ UNCHANGED outcome
    /\ UNCHANGED <<harness, reference_set, op, arg, reconcileLocals, validateLocals>>

\* if k not in symbol_set: raise ExtraSymbolError
validate_L174(t) ==
    /\ pc[t] = "L174"
    /\ IF k[t] \notin reference_set
       THEN /\ outcome' = [outcome EXCEPT ![t] = ExtraKeyError(k[t])]
            /\ pc' = [pc EXCEPT ![t] = "done"]
       ELSE /\ pc' = [pc EXCEPT ![t] = "L178"]
            /\ UNCHANGED outcome
    /\ UNCHANGED <<harness, reference_set, op, arg, reconcileLocals, validateLocals>>

\* Mutant: the value test is skipped.
validate_L178_nocheck(t) ==
    /\ pc[t] = "L178"
    /\ pc' = [pc EXCEPT ![t] = "L173"]
    /\ UNCHANGED <<harness, reference_set, op, arg, reconcileLocals,
                   validateLocals, outcome>>

\* if v not in BOOLEAN_VALUES: raise InvalidBooleanValueError
validate_L178(t) ==
    /\ pc[t] = "L178"
    /\ IF v[t] \notin BOOLEAN_VALUES
       THEN /\ outcome' = [outcome EXCEPT ![t] = InvalidBooleanValueError(v[t], k[t])]
            /\ pc' = [pc EXCEPT ![t] = "done"]
       ELSE /\ pc' = [pc EXCEPT ![t] = "L173"]
            /\ UNCHANGED outcome
    /\ UNCHANGED <<harness, reference_set, op, arg, reconcileLocals, validateLocals>>

\* ------------------------------------------------------------ specification
Next ==
    \E t \in Threads :
        \/ reconcile_call(t)
        \/ reconcile_L94(t)
        \/ reconcile_L95(t)
        \/ reconcile_L96(t)
        \/ reconcile_L99(t)
        \/ reconcile_L100(t)
        \/ reconcile_L102(t)
        \/ reconcile_L107(t)
        \/ validate_call(t)
        \/ validate_L173(t)
        \/ validate_L174(t)
        \/ validate_L178(t)

Spec == Init /\ [][Next]_vars

SpecConc == InitConc /\ [][Next]_vars

\* ------------------------------------------------- the functions, run alone
\* assert_iterable_contains_all_expr_symbols(C, R) run start to end with no
\* other thread: the outcomes it can have (one per set iteration order).
assert_iterable_contains_all_expr_symbols(C, R) ==
    LET l == list(C)
        s == set(l)
        pe == s \ R
        re == R \ s
    IN  IF LenDiffers(l, s) THEN {DuplicateSymbolError}
        ELSE IF re # {} THEN {MissingSymbolError(o) : o \in SetIterations(re)}
        ELSE IF pe # {} THEN {ExtraSymbolError(o) : o \in SetIterations(pe)}
        ELSE {Returned}

\* assert_all_valid_keys(M, R) run start to end with no other thread.
RECURSIVE assert_all_valid_keys(_, _)
assert_all_valid_keys(M, R) ==
    IF M = <<>> THEN Returned
    ELSE IF M[1][1] \notin R THEN ExtraKeyError(M[1][1])
    ELSE IF M[1][2] \notin BOOLEAN_VALUES THEN InvalidBooleanValueError(M[1][2], M[1][1])
    ELSE assert_all_valid_keys(Tail(M), R)

\* ------------------------------------------------------------------ claims
Done(t) == pc[t] = "done"
Reconciled(t) == op[t] = "reconcile" /\ Done(t)
Validated(t) == op[t] = "validate" /\ Done(t)
NoRepeat(C) == \A i, j \in DOMAIN C : C[i] = C[j] => i = j
Failures == {"DuplicateSymbolError", "MissingSymbolError", "ExtraSymbolError",
             "InvalidBooleanValueError"}

\* The symbols an enumeration message names, in the order it names them:
\* the token between the quotes of each '"sym"' group after the prefix.
NamedIn(msg) == [j \in 1..(Len(msg) \div 4) |-> msg[4 * j - 1]]
NamesExactly(msg, S) ==
    /\ Range(NamedIn(msg)) = S
    /\ Len(NamedIn(msg)) = Cardinality(S)
    /\ Len(msg) = IF S = {} THEN 1 ELSE 4 * Cardinality(S)

AcceptedValues == {"1", "0", "True", "False"}
PairValid(p, R) == p[1] \in R /\ p[2] \in AcceptedValues

\* C1: for a candidate with no repeated element the reconciler returns
\* without error exactly when the set of the candidate equals the reference
\* set (the empty candidate against the empty reference set included).
C1_SucceedsIffEqual ==
    \A t \in Threads :
        (Reconciled(t) /\ NoRepeat(arg[t])) =>
            ((outcome[t].kind = "returned") <=> (Range(arg[t]) = ref0))

C1_Witness ==
    \E t \in Threads :
        /\ Reconciled(t) /\ NoRepeat(arg[t])
        /\ Len(arg[t]) = 3 /\ Range(arg[t]) = ref0
        /\ outcome[t].kind = "returned"

\* C2: a candidate in which some symbol occurs more than once always fails
\* with DuplicateSymbolError, whatever the reference set.
C2_RepeatsAlwaysDuplicate ==
    \A t \in Threads :
        (Reconciled(t) /\ ~NoRepeat(arg[t])) => outcome[t] = DuplicateSymbolError

C2_Witness ==
    \E t \in Threads :
        /\ Reconciled(t) /\ ~NoRepeat(arg[t])
        /\ ref0 \ Range(arg[t]) # {} /\ Range(arg[t]) \ ref0 # {}
        /\ outcome[t].kind = "DuplicateSymbolError"

\* C3: one failure kind per call with precedence Duplicate > Missing > Extra:
\* a repeat-free candidate with both missing and unexpected symbols fails
\* with MissingSymbolError, and ExtraSymbolError is raised only for a
\* repeat-free candidate with nothing missing.
C3_Precedence ==
    \A t \in Threads :
        Reconciled(t) =>
            /\ outcome[t].kind \in {"returned", "DuplicateSymbolError",
                                    "MissingSymbolError", "ExtraSymbolError"}
            /\ (NoRepeat(arg[t]) /\ ref0 \ Range(arg[t]) # {}
                   /\ Range(arg[t]) \ ref0 # {})
                 => outcome[t].kind = "MissingSymbolError"
            /\ outcome[t].kind = "ExtraSymbolError"
                 => (NoRepeat(arg[t]) /\ ref0 \ Range(arg[t]) = {})
            /\ outcome[t].kind = "MissingSymbolError" => NoRepeat(arg[t])

C3_Witness ==
    \E t \in Threads :
        /\ Reconciled(t) /\ NoRepeat(arg[t])
        /\ ref0 \ Range(arg[t]) # {} /\ Range(arg[t]) \ ref0 # {}
        /\ outcome[t].kind = "MissingSymbolError"

\* C4: a repeat-free candidate whose set is a proper subset of the reference
\* set fails with MissingSymbolError, and the message names exactly the
\* symbols of R - set(C), each once.
C4_MissingNamesExactly ==
    \A t \in Threads :
        (Reconciled(t) /\ NoRepeat(arg[t]) /\ Range(arg[t]) \subseteq ref0
            /\ Range(arg[t]) # ref0) =>
            /\ outcome[t].kind = "MissingSymbolError"
            /\ NamesExactly(outcome[t].msg, ref0 \ Range(arg[t]))

C4_Witness ==
    \E t \in Threads :
        /\ Reconciled(t) /\ NoRepeat(arg[t]) /\ Len(arg[t]) = 1
        /\ Range(arg[t]) \subseteq ref0 /\ Cardinality(ref0 \ Range(arg[t])) = 2
        /\ outcome[t].kind = "MissingSymbolError"

\* C5: a repeat-free candidate whose set is a proper superset of the
\* reference set fails with ExtraSymbolError, and the message names exactly
\* the symbols of set(C) - R, each once.
C5_ExtraNamesExactly ==
    \A t \in Threads :
        (Reconciled(t) /\ NoRepeat(arg[t]) /\ ref0 \subseteq Range(arg[t])
            /\ Range(arg[t]) # ref0) =>
            /\ outcome[t].kind = "ExtraSymbolError"
            /\ NamesExactly(outcome[t].msg, Range(arg[t]) \ ref0)

C5_Witness ==
    \E t \in Threads :
        /\ Reconciled(t) /\ NoRepeat(arg[t]) /\ ref0 # {}
        /\ ref0 \subseteq Range(arg[t]) /\ Cardinality(Range(arg[t]) \ ref0) = 2
        /\ outcome[t].kind = "ExtraSymbolError"

\* C6: the mapping validator returns without error exactly when every key
\* of the mapping is in the reference set and every value is one of
\* 1, 0, True, False; the empty mapping succeeds.
C6_ValidIffKeysAndValues ==
    \A t \in Threads :
        Validated(t) =>
            ((outcome[t].kind = "returned")
                <=> (\A i \in DOMAIN arg[t] : PairValid(arg[t][i], ref0)))

C6_Witness ==
    \E t \in Threads :
        /\ Validated(t) /\ Len(arg[t]) = 2
        /\ \A i \in DOMAIN arg[t] : PairValid(arg[t][i], ref0)
        /\ outcome[t].kind = "returned"

\* C7: the mapping validator stops at the first offending pair in iteration
\* order and reports that pair only: the pairs before it are valid, an
\* unknown key gives ExtraSymbolError naming the key (even if the value is
\* invalid too), otherwise InvalidBooleanValueError naming value and key,
\* and the iterator has yielded no pair after the reported one.
C7_FirstOffendingPair ==
    \A t \in Threads :
        (Validated(t) /\ outcome[t].kind \in Failures) =>
            LET i == idx[t]
                M == arg[t]
            IN  /\ i \in DOMAIN M
                /\ \A j \in 1..(i - 1) : PairValid(M[j], ref0)
                /\ ~PairValid(M[i], ref0)
                /\ IF M[i][1] \notin ref0
                   THEN /\ outcome[t].kind = "ExtraSymbolError"
                        /\ outcome[t].msg[2] = M[i][1]
                        /\ Len(outcome[t].msg) = 4
                   ELSE /\ outcome[t].kind = "InvalidBooleanValueError"
                        /\ outcome[t].msg[2] = M[i][2]
                        /\ outcome[t].msg[6] = M[i][1]
                        /\ Len(outcome[t].msg) = 8

C7_Witness ==
    \E t \in Threads :
        /\ Validated(t) /\ outcome[t].kind = "ExtraSymbolError"
        /\ idx[t] = 2 /\ Len(arg[t]) = 3
        /\ arg[t][2][1] \notin ref0 /\ arg[t][2][2] \notin AcceptedValues
        /\ ~PairValid(arg[t][3], ref0)

\* C8: the mapping validator ends in success, ExtraSymbolError or
\* InvalidBooleanValueError only, and a mapping whose keys are a proper
\* subset of the reference set, with valid values, succeeds.
C8_NoMissingNoDuplicate ==
    \A t \in Threads :
        Validated(t) =>
            /\ outcome[t].kind \in {"returned", "ExtraSymbolError",
                                    "InvalidBooleanValueError"}
            /\ (Keys(arg[t]) \subseteq ref0 /\ Keys(arg[t]) # ref0
                   /\ \A i \in DOMAIN arg[t] : arg[t][i][2] \in AcceptedValues)
                 => outcome[t].kind = "returned"

C8_Witness ==
    \E t \in Threads :
        /\ Validated(t) /\ Len(arg[t]) = 1
        /\ Keys(arg[t]) \subseteq ref0 /\ Cardinality(ref0 \ Keys(arg[t])) = 2
        /\ outcome[t].kind = "returned"

\* C9: no call changes the reference set, the mapping validator leaves the
\* candidate mapping as passed, and the reconciler iterates the candidate
\* iterable exactly once, whatever the outcome.
C9_InputsNotMutated ==
    /\ reference_set = ref0
    /\ \A t \in Threads :
          /\ op[t] = "validate" => symbol_input_dict[t] = arg[t]
          /\ op[t] = "reconcile" =>
                /\ consumed[t] = (IF pc[t] = "L94" THEN 0 ELSE 1)
                /\ pc[t] # "L94" => passed_symbol_list[t] = arg[t]

C9_Witness ==
    \E t \in Threads :
        /\ Reconciled(t) /\ outcome[t].kind = "MissingSymbolError"
        /\ Range(arg[t]) \cap ref0 # {}
        /\ consumed[t] = 1 /\ reference_set = ref0

\* C10: under any interleaving of concurrent calls, each call ends as it
\* would have ended run alone on the same arguments (same kind, same named
\* symbols).
C10_OutcomeAsAlone ==
    \A t \in Threads :
        Done(t) =>
            IF op[t] = "reconcile"
            THEN outcome[t] \in assert_iterable_contains_all_expr_symbols(arg[t], ref0)
            ELSE outcome[t] = assert_all_valid_keys(arg[t], ref0)

C10_Witness ==
    /\ callers = Threads
    /\ Reconciled("t1") /\ outcome["t1"].kind = "MissingSymbolError"
    /\ op["t2"] = "reconcile" /\ pc["t2"] = "L100"
    /\ Range(arg["t2"]) \cap ref0 # {}

====
